---- MODULE Spec2Model ----
(***************************************************************************)
(* A model of the session engine of the eye tracking client                *)
(* (src/src/gazeapi.cpp, class gtl::GazeApi::Engine and CalibrationProxy). *)
(*                                                                         *)
(* Two threads run the engine's code: the caller thread, which invokes the *)
(* public operations, and the transport's receive context, which invokes   *)
(* on_message and on_disconnected.  The server and the network are the     *)
(* environment.  The transport (gazeapi_socket.hpp), the message parser    *)
(* (gazeapi_parser.hpp) and the listener container                         *)
(* (gazeapi_observable.hpp) are not part of the sources at hand; they are  *)
(* modelled from their contracts in the specification, sections 4.2, 4.5   *)
(* and 6.                                                                  *)
(***************************************************************************)
EXTENDS Integers, Sequences, FiniteSets, TLC

(***************************************************************************)
(* Bounds of the model.                                                    *)
(***************************************************************************)
MaxEvents == 2
MaxWait == 1
MaxPoints == 1
MaxRun == 5

(***************************************************************************)
(* Program constants.                                                      *)
(***************************************************************************)
VERSION == 2
SR_GET_TRACKER_STATE == 2
SR_GET_CHANGES == 16
SR_SET_VERSION == 32
SR_SET_SCREEN == 128
SR_CALIB_START == 256
SR_CALIB_POINT_START == 512
NoId == -1

AS_STOPPED == "AS_STOPPED"
AS_RUNNING == "AS_RUNNING"

GASC_OK == "GASC_OK"
GASC_ERROR == "GASC_ERROR"
GASC_CALIBRATION_CHANGE == "GASC_CALIBRATION_CHANGE"
GASC_DISPLAY_CHANGE == "GASC_DISPLAY_CHANGE"
GASC_TRACKER_STATE_CHANGE == "GASC_TRACKER_STATE_CHANGE"

GAC_UNKNOWN == "GAC_UNKNOWN"
GAC_TRACKER == "GAC_TRACKER"
GAC_CALIBRATION == "GAC_CALIBRATION"

GAR_UNKNOWN == "GAR_UNKNOWN"
GAR_GET == "GAR_GET"
GAR_SET == "GAR_SET"
GAR_START == "GAR_START"
GAR_POINTSTART == "GAR_POINTSTART"
GAR_POINTEND == "GAR_POINTEND"
GAR_ABORT == "GAR_ABORT"
GAR_CLEAR == "GAR_CLEAR"

\* The strings a parser cannot map to an enumerator stand for every broken text.
BadText == "?"

Absent == 0 - 1

VARIABLES
    m_state,              \* ApiState
    m_sync_requests,      \* std::map<int, Message>: id -> Message
    m_server_proxy,       \* ServerState
    m_gaze_data,          \* GazeData
    m_calib_result,       \* CalibResult
    m_screen,             \* Screen
    m_calibration_proxy,  \* CalibrationProxy
    m_sync_lock,          \* owner of the boost::mutex: "none", "caller" or "rx"
    observers,            \* the five Observable<...> registries
    sock,                 \* transport: is the socket connected
    outbox,               \* transport: requests on their way to the server
    inbox,                \* transport: messages (and the loss callback) not yet dispatched
    blk,                  \* transport: per thread, the send_sync it is blocked in
    srvVersion,           \* server: its protocol version
    cpc,                  \* caller thread: position
    cloc,                 \* caller thread: locals of the running call
    rpc,                  \* receive context: position
    rmsg,                 \* receive context: the message whose on_message is running
    ret,                  \* the last finished call and its result
    cev,                  \* what the running (or last) call of the caller did, in order
    ev,                   \* what the last step did, in order
    step,                 \* the last step
    rin,                  \* the message on_message ran on in the last step, NoRaw otherwise
    calls,                \* calls started
    pushed,               \* unsolicited server messages sent
    run,                  \* the calibration run: the last calibration_start and what followed
    reading,              \* application reader thread: the guard it holds inside get_*, or "none"
    wr,                   \* the snapshot writes of the last step, each with its guard held or not
    told,                 \* the last value given to the connection-state listeners, or "none"
    scn                   \* the scenario explored: which calls and messages are tried

vars ==
    <<m_state, m_sync_requests, m_server_proxy, m_gaze_data, m_calib_result,
      m_screen, m_calibration_proxy, m_sync_lock, observers, sock, outbox, inbox,
      blk, srvVersion, cpc, cloc, rpc, rmsg, ret, cev, ev, step, rin, calls, pushed,
      run, reading, wr, told, scn>>

(***************************************************************************)
(* Values.                                                                 *)
(***************************************************************************)
Threads == {"caller", "rx"}

\* Engine::Message::reset
MessageReset ==
    [m_category |-> GAC_UNKNOWN, m_request |-> GAR_UNKNOWN,
     m_statuscode |-> GASC_ERROR, m_id |-> NoId]

\* Engine::Message::is( GazeApiStatusCode )
is(msg, statuscode) == msg.m_statuscode = statuscode

\* Engine::Message::is_notification
is_notification(msg) ==
    \/ is(msg, GASC_CALIBRATION_CHANGE)
    \/ is(msg, GASC_DISPLAY_CHANGE)
    \/ is(msg, GASC_TRACKER_STATE_CHANGE)

\* Engine::Message::has_id
has_id(msg) == msg.m_id >= 0

\* memset( &m_server_proxy, 0, ... ), memset( &m_gaze_data, 0, ... ), memset( &m_screen, 0, ... )
ZeroServerState == [version |-> 0, trackerstate |-> 0]
ZeroGazeData == 0
ZeroScreen == 0

\* CalibResult::clear
ClearedCalibResult == [result |-> FALSE, tag |-> 0]

\* CalibrationProxy
IdleProxy == [m_point_count |-> 0, m_processed_points |-> 0, m_is_calibrating |-> FALSE]

start_calibration(p, point_count) ==
    [p EXCEPT !.m_point_count = point_count, !.m_is_calibrating = TRUE]

point_end(p) == [p EXCEPT !.m_processed_points = @ + 1]

is_done(p) == p.m_processed_points = p.m_point_count

\* get_progress without its test for a point count of 0
get_progress_unguarded(p) == <<p.m_processed_points, p.m_point_count>>

\* The double is kept as the fraction it is computed from: <<numerator, denominator>>.
get_progress(p) ==
    IF 0 = p.m_point_count THEN <<0, 1>> ELSE <<p.m_processed_points, p.m_point_count>>

clear(p) == IdleProxy

(***************************************************************************)
(* Requests, as get_tracker_state, set_version, ... write them.            *)
(***************************************************************************)
Request(id, category, request, values, arg) ==
    [id |-> id, category |-> category, request |-> request, values |-> values, arg |-> arg]

NoReq == Request(NoId, "", "", {}, 0)

AllValues ==
    {"version", "trackerstate", "framerate", "iscalibrated", "iscalibrating",
     "calibresult", "frame", "screenindex", "screenresw", "screenresh",
     "screenpsyw", "screenpsyh"}

ScreenValues == {"screenindex", "screenresw", "screenresh", "screenpsyw", "screenpsyh"}

CalibValues == {"calibresult", "iscalibrated", "iscalibrating"}

ReqVersion == Request(NoId, "tracker", "get", {"version"}, 0)
ReqSetVersion(version) == Request(SR_SET_VERSION, "tracker", "set", {}, version)
ReqSetScreen(screen) == Request(SR_SET_SCREEN, "tracker", "set", {}, screen)
ReqTrackerState == Request(SR_GET_TRACKER_STATE, "tracker", "get", AllValues, 0)
ReqCalibStart(point_count) == Request(SR_CALIB_START, "calibration", "start", {}, point_count)
ReqCalibClear == Request(NoId, "calibration", "clear", {}, 0)
ReqCalibAbort == Request(NoId, "calibration", "abort", {}, 0)
ReqCalibPointStart == Request(SR_CALIB_POINT_START, "calibration", "pointstart", {}, 0)
ReqCalibPointEnd == Request(NoId, "calibration", "pointend", {}, 0)

\* the switch with the display and tracker cases falling through to the next one
ChangesValues_fallthrough(statuscode) ==
    CASE statuscode = GASC_CALIBRATION_CHANGE ->
            {"calibresult", "iscalibrated", "iscalibrating"}
      [] statuscode = GASC_DISPLAY_CHANGE -> {"trackerstate"}
      [] statuscode = GASC_TRACKER_STATE_CHANGE -> {"trackerstate"}
      [] OTHER -> {}

\* The follow-up query of a notification: the values the switch selects.
ChangesValues(statuscode) ==
    CASE statuscode = GASC_CALIBRATION_CHANGE -> CalibValues
      [] statuscode = GASC_DISPLAY_CHANGE -> ScreenValues
      [] statuscode = GASC_TRACKER_STATE_CHANGE -> {"trackerstate"}
      [] OTHER -> {}

ReqChanges(statuscode) ==
    Request(SR_GET_CHANGES, "tracker", "get", ChangesValues(statuscode), 0)

(***************************************************************************)
(* Events: what a step does to the world outside the engine's fields.      *)
(***************************************************************************)
Event(k, a, n, m, d, q) == [k |-> k, a |-> a, n |-> n, m |-> m, d |-> d, q |-> q]

EvNotify(a, listener, m, d) == Event("notify", a, listener, m, d, NoReq)
EvSend(q) == Event("send", q.request, 0, 0, 0, q)
EvSock(a) == Event("sock", a, 0, 0, 0, NoReq)

BoolInt(b) == IF b THEN 1 ELSE 0

(***************************************************************************)
(* The world a step works on: the engine's fields, the transport and the   *)
(* events of the step so far.  The code of a handler is a composition of   *)
(* the operators below on this record; Commit makes the result the next    *)
(* state.                                                                  *)
(***************************************************************************)
World ==
    [m_state |-> m_state, m_sync_requests |-> m_sync_requests,
     m_server_proxy |-> m_server_proxy, m_gaze_data |-> m_gaze_data,
     m_calib_result |-> m_calib_result, m_screen |-> m_screen,
     m_calibration_proxy |-> m_calibration_proxy, m_sync_lock |-> m_sync_lock,
     observers |-> observers, sock |-> sock, outbox |-> outbox, inbox |-> inbox,
     blk |-> blk, srvVersion |-> srvVersion, ev |-> <<>>, wr |-> {}]

\* The value of the last on_connection_state_changed call among the events, else the old one.
last_told(events, old) ==
    LET calls_made == SelectSeq(events, LAMBDA e : e.k = "notify"
                                                  /\ e.a = "on_connection_state_changed")
    IN  IF calls_made = <<>> THEN old
        ELSE IF calls_made[Len(calls_made)].m = 1 THEN "true" ELSE "false"

Commit(w) ==
    /\ m_state' = w.m_state
    /\ m_sync_requests' = w.m_sync_requests
    /\ m_server_proxy' = w.m_server_proxy
    /\ m_gaze_data' = w.m_gaze_data
    /\ m_calib_result' = w.m_calib_result
    /\ m_screen' = w.m_screen
    /\ m_calibration_proxy' = w.m_calibration_proxy
    /\ m_sync_lock' = w.m_sync_lock
    /\ observers' = w.observers
    /\ sock' = w.sock
    /\ outbox' = w.outbox
    /\ inbox' = w.inbox
    /\ blk' = w.blk
    /\ srvVersion' = w.srvVersion
    /\ ev' = w.ev
    /\ wr' = w.wr
    /\ told' = last_told(w.ev, told)

Emit(w, events) == [w EXCEPT !.ev = @ \o events]

\* The boost::mutex that guards each snapshot.
Guards == {"m_gaze_lock", "m_calib_lock", "m_screen_lock"}

GuardOf(field) ==
    CASE field = "m_gaze_data" -> "m_gaze_lock"
      [] field = "m_calib_result" -> "m_calib_lock"
      [] field = "m_screen" -> "m_screen_lock"

\* an assignment to a snapshot between lock() and unlock() of its guard
locked_write(w, field, value) ==
    [w EXCEPT ![field] = value, !.wr = @ \cup {[field |-> field, held |-> TRUE]}]

\* an assignment to a snapshot with no guard taken
bare_write(w, field, value) ==
    [w EXCEPT ![field] = value, !.wr = @ \cup {[field |-> field, held |-> FALSE]}]

(***************************************************************************)
(* Transport (specification, sections 4.2 and 6).                          *)
(***************************************************************************)
NotBlocked == [st |-> "no", id |-> NoId]

\* A lost or closed connection fails every send_sync that waits on it.
ReleaseAll(b) ==
    [t \in Threads |-> IF b[t].st = "wait" THEN [b[t] EXCEPT !.st = "released"] ELSE b[t]]

\* The reply with this id has been dispatched: the send_sync waiting for it returns.
ReleaseId(b, id) ==
    [t \in Threads |->
        IF b[t].st = "wait" /\ b[t].id = id THEN [b[t] EXCEPT !.st = "released"] ELSE b[t]]

\* Socket::connect, when it succeeds against a server of version v
SocketConnected(w, v) ==
    Emit([w EXCEPT !.sock = TRUE, !.outbox = <<>>, !.inbox = <<>>, !.srvVersion = v],
         <<EvSock("connect")>>)

\* Socket::connect, when it fails
SocketRefused(w) == Emit(w, <<EvSock("connect")>>)

\* Socket::disconnect
SocketDisconnect(w) ==
    Emit([w EXCEPT !.sock = FALSE, !.outbox = <<>>, !.inbox = <<>>,
                   !.blk = ReleaseAll(@), !.srvVersion = 0],
         <<EvSock("disconnect")>>)

\* Socket::send: fire and forget
SocketSend(w, q) ==
    Emit([w EXCEPT !.outbox = IF w.sock THEN Append(@, q) ELSE @], <<EvSend(q)>>)

\* Socket::send_sync, up to the point where the calling thread t blocks
SocketSendSync(w, t, q) ==
    LET w1 == SocketSend(w, q)
    IN  [w1 EXCEPT !.blk[t] = [st |-> IF w.sock THEN "wait" ELSE "released", id |-> q.id]]

\* Socket::get_id
get_id(q) == q.id

(***************************************************************************)
(* Listener registries (specification, section 4.5): get_observers() is    *)
(* the category's listeners in registration order.                         *)
(***************************************************************************)
Categories == {"gaze", "calib_result", "tracker_state", "calib_process", "connection_state"}

\* The listeners the application registered: two per category, in this order.
Registered ==
    [c \in Categories |->
        CASE c = "gaze" -> <<1, 2>>
          [] c = "calib_result" -> <<3, 2>>
          [] c = "tracker_state" -> <<4, 1>>
          [] c = "calib_process" -> <<5, 3>>
          [] c = "connection_state" -> <<6, 4>>]

get_observers(w, category) == w.observers[category]

\* the loop run from the last listener to the first
NotifyAll_backwards(w, category, a, m, d) ==
    LET obs == get_observers(w, category)
    IN  Emit(w, [i \in 1..Len(obs) |-> EvNotify(a, obs[Len(obs) + 1 - i], m, d)])

\* for( i = 0; i < observers.size(); ++i ) observers[i]->a( m, d )
NotifyAll(w, category, a, m, d) ==
    LET obs == get_observers(w, category)
    IN  Emit(w, [i \in 1..Len(obs) |-> EvNotify(a, obs[i], m, d)])

(***************************************************************************)
(* Engine: the operations of the caller thread.                            *)
(***************************************************************************)
EmptyMap == [i \in {} |-> MessageReset]

\* std::map::operator[]: the entry, default constructed when there is none
Entry(map, id) == IF id \in DOMAIN map THEN map[id] ELSE MessageReset

Touch(map, id) == IF id \in DOMAIN map THEN map ELSE (id :> MessageReset) @@ map

Store(map, id, msg) == [i \in (DOMAIN map) \cup {id} |-> IF i = id THEN msg ELSE map[i]]

\* disconnect without its "if( m_state != AS_STOPPED )"
disconnect_unguarded(w) == SocketDisconnect([w EXCEPT !.m_state = AS_STOPPED])

\* Engine::disconnect
disconnect(w) ==
    IF w.m_state # AS_STOPPED
    THEN SocketDisconnect([w EXCEPT !.m_state = AS_STOPPED])
    ELSE w

\* Engine::send_async
send_async(w, q) ==
    IF w.m_state # AS_STOPPED THEN SocketSend(w, q) ELSE w

\* Engine::send_sync, the condition of its if
send_sync_enters(w, q) == w.m_state # AS_STOPPED /\ get_id(q) # NoId

\* send_sync without its msg.reset()
send_sync_noreset(w, t, q) == SocketSendSync([w EXCEPT !.m_sync_lock = t], t, q)

\* Engine::send_sync from m_sync_lock.lock() (acquired) to the block in m_socket.send_sync
send_sync_locked(w, t, q) ==
    SocketSendSync(
        [w EXCEPT !.m_sync_lock = t,
                  !.m_sync_requests = Store(@, get_id(q), MessageReset)],
        t, q)

\* Engine::send_sync after m_socket.send_sync returned: m_sync_lock.unlock()
send_sync_unlock(w, t) ==
    [w EXCEPT !.m_sync_lock = "none", !.blk[t] = NotBlocked]

\* a status check that takes every reply for a success
sync_ok_always(w, id) == TRUE

\* m_sync_requests[id].is( GASC_OK ), which creates the entry when there is none
sync_ok(w, id) == is(Entry(w.m_sync_requests, id), GASC_OK)

sync_touch(w, id) == [w EXCEPT !.m_sync_requests = Touch(@, id)]

\* connect without its state check
connect_never_rejected(w) == FALSE

\* Engine::connect: if( AS_STOPPED != m_state ) return false;
connect_rejected(w) == AS_STOPPED # w.m_state

\* a version check that accepts every server that answered
unsupported_only_silent(version) == version < 1

\* Engine::connect: if( get_default_version() < VERSION )
unsupported(version) == version < VERSION

\* get_default_version leaving the polled value in the snapshot
swap_version_forgotten(w, version) == w

\* get_default_version: std::swap( version, m_server_proxy.version ), the snapshot's side
swap_version(w, version) == [w EXCEPT !.m_server_proxy.version = version]

\* Engine::connect: the three memsets and m_calib_result.clear()
connect_reset(w) ==
    LET w1 == [w EXCEPT !.m_server_proxy = ZeroServerState]
        w2 == bare_write(w1, "m_gaze_data", ZeroGazeData)
        w3 == bare_write(w2, "m_screen", ZeroScreen)
    IN  bare_write(w3, "m_calib_result", ClearedCalibResult)

\* Engine::connect from m_sync_requests.clear() to the send of get_default_version,
\* when the socket connects to a server of version v
connect_open(w, v) ==
    LET w1 == SocketConnected([w EXCEPT !.m_sync_requests = EmptyMap], v)
        w2 == connect_reset([w1 EXCEPT !.m_state = AS_RUNNING])
        \* get_default_version: m_server_proxy.version = 0; send_async( ... )
        w3 == [w2 EXCEPT !.m_server_proxy.version = 0]
    IN  send_async(w3, ReqVersion)

\* Engine::connect when the socket does not connect
connect_refused(w) == SocketRefused([w EXCEPT !.m_sync_requests = EmptyMap])

\* the listener loop stopping one short: i < observers.size() - 1
connect_notify_short(w) ==
    LET obs == get_observers(w, "connection_state")
    IN  Emit(w, [i \in 1..(Len(obs) - 1) |->
                    EvNotify("on_connection_state_changed", obs[i], 1, 0)])

\* Engine::connect, the listener loop after the handshake
connect_notify(w) == NotifyAll(w, "connection_state", "on_connection_state_changed", 1, 0)

\* on_disconnected without its disconnect()
on_disconnected_notify_only(w) ==
    NotifyAll(w, "connection_state", "on_connection_state_changed", 0, 0)

\* Engine::on_disconnected
on_disconnected(w) ==
    NotifyAll(disconnect(w), "connection_state", "on_connection_state_changed", 0, 0)

(***************************************************************************)
(* Messages from the server, as the parser sees them, and the parser       *)
(* (specification, section 6, codec contract).                             *)
(***************************************************************************)
NoCalib == [has |-> FALSE, result |-> FALSE, tag |-> 0]
CalibGood == [has |-> TRUE, result |-> TRUE, tag |-> 1]
CalibFailed == [has |-> TRUE, result |-> FALSE, tag |-> 1]

Payload(ok, version, trackerstate, screen, frame, calib) ==
    [ok |-> ok, version |-> version, trackerstate |-> trackerstate,
     screen |-> screen, frame |-> frame, calib |-> calib]

NoPayload == Payload(TRUE, Absent, Absent, Absent, Absent, NoCalib)

Raw(json, id, category, statuscode, request, values) ==
    [kind |-> "msg", json |-> json, id |-> id, category |-> category,
     statuscode |-> statuscode, request |-> request, values |-> values]

NoRaw == [Raw(TRUE, NoId, "", 0, "", NoPayload) EXCEPT !.kind = "none"]

\* The transport's on_disconnected callback, waiting for the receive context.
Lost == [Raw(TRUE, NoId, "", 0, "", NoPayload) EXCEPT !.kind = "lost"]

\* Parser::parse_id
parse_id(raw) == raw.id

\* Parser::parse_category
parse_category(text) ==
    CASE text = "tracker" -> [ok |-> TRUE, v |-> GAC_TRACKER]
      [] text = "calibration" -> [ok |-> TRUE, v |-> GAC_CALIBRATION]
      [] OTHER -> [ok |-> FALSE, v |-> GAC_UNKNOWN]

\* Parser::parse_status_code
parse_status_code(code) ==
    CASE code = 200 -> [ok |-> TRUE, v |-> GASC_OK]
      [] code = 500 -> [ok |-> TRUE, v |-> GASC_ERROR]
      [] code = 800 -> [ok |-> TRUE, v |-> GASC_CALIBRATION_CHANGE]
      [] code = 801 -> [ok |-> TRUE, v |-> GASC_DISPLAY_CHANGE]
      [] code = 802 -> [ok |-> TRUE, v |-> GASC_TRACKER_STATE_CHANGE]
      [] OTHER -> [ok |-> FALSE, v |-> GASC_ERROR]

\* Parser::parse_request
parse_request(text) ==
    CASE text = "get" -> [ok |-> TRUE, v |-> GAR_GET]
      [] text = "set" -> [ok |-> TRUE, v |-> GAR_SET]
      [] text = "start" -> [ok |-> TRUE, v |-> GAR_START]
      [] text = "pointstart" -> [ok |-> TRUE, v |-> GAR_POINTSTART]
      [] text = "pointend" -> [ok |-> TRUE, v |-> GAR_POINTEND]
      [] text = "abort" -> [ok |-> TRUE, v |-> GAR_ABORT]
      [] text = "clear" -> [ok |-> TRUE, v |-> GAR_CLEAR]
      [] OTHER -> [ok |-> FALSE, v |-> GAR_UNKNOWN]

\* Parser::parse_calib_result
parse_calib_result(values) ==
    [ok |-> values.ok, has_calib_result |-> values.calib.has,
     calib_result |-> [result |-> values.calib.result, tag |-> values.calib.tag]]

\* Parser::parse_server_state: the fields the reply carries overwrite the copies passed in
parse_server_state(server_state, screen, values) ==
    [ok |-> values.ok,
     server_state |->
        [version |-> IF values.version # Absent THEN values.version ELSE server_state.version,
         trackerstate |-> IF values.trackerstate # Absent THEN values.trackerstate
                          ELSE server_state.trackerstate],
     screen |-> IF values.screen # Absent THEN values.screen ELSE screen,
     has_gaze_data |-> values.frame # Absent,
     gaze_data |-> values.frame,
     has_calib_result |-> values.calib.has,
     calib_result |-> [result |-> values.calib.result, tag |-> values.calib.tag]]

(***************************************************************************)
(* Engine: the dispatch path of the receive context.                       *)
(***************************************************************************)
\* a comparison made after "m_server_proxy = server_state"
has_state_changed_after_update(w, server_state) ==
    server_state.trackerstate # server_state.trackerstate

\* Engine::parse: has_state_changed, computed before m_server_proxy is assigned
has_state_changed(w, server_state) ==
    server_state.trackerstate # w.m_server_proxy.trackerstate

\* the gaze snapshot stored without the listener loop
store_gaze_silently(w, p) ==
    IF p.has_gaze_data THEN locked_write(w, "m_gaze_data", p.gaze_data) ELSE w

\* Engine::parse: if( has_gaze_data ) { m_gaze_data = gaze_data; on_gaze_data loop }
store_gaze(w, p) ==
    IF p.has_gaze_data
    THEN NotifyAll(locked_write(w, "m_gaze_data", p.gaze_data),
                   "gaze", "on_gaze_data", p.gaze_data, 0)
    ELSE w

\* Engine::parse: if( has_calib_result ) { m_calib_result = calib_result; listener loop }
store_calib_result(w, p) ==
    IF p.has_calib_result
    THEN NotifyAll(locked_write(w, "m_calib_result", p.calib_result),
                   "calib_result", "on_calibration_changed",
                   BoolInt(p.calib_result.result), p.calib_result.tag)
    ELSE w

\* the screen stored and announced without the comparison
store_screen_always(w, p) ==
    NotifyAll(locked_write(w, "m_screen", p.screen),
              "tracker_state", "on_screen_state_changed", p.screen, 0)

\* Engine::parse: if( screen != m_screen ) { m_screen = screen; listener loop }
store_screen(w, p) ==
    IF p.screen # w.m_screen
    THEN NotifyAll(locked_write(w, "m_screen", p.screen),
                   "tracker_state", "on_screen_state_changed", p.screen, 0)
    ELSE w

\* Engine::parse: if( has_state_changed ) on_tracker_connection_changed loop
tell_state_changed(w, changed) ==
    IF changed
    THEN NotifyAll(w, "tracker_state", "on_tracker_connection_changed",
                   w.m_server_proxy.trackerstate, 0)
    ELSE w

\* Engine::parse, the GAC_TRACKER / GAR_GET branch
parse_tracker_get(w, values) ==
    LET p == parse_server_state(w.m_server_proxy, w.m_screen, values)
        changed == has_state_changed(w, p.server_state)
        w1 == [w EXCEPT !.m_server_proxy = p.server_state]
        w2 == store_gaze(w1, p)
        w3 == store_calib_result(w2, p)
        w4 == store_screen(w3, p)
        w5 == tell_state_changed(w4, changed)
    IN  IF ~p.ok THEN w ELSE w5

\* the successful result stored and announced, the progress tracker left as it is
store_final_result_no_reset(w, c) ==
    IF c.calib_result.result
    THEN NotifyAll(locked_write(w, "m_calib_result", c.calib_result),
                   "calib_result", "on_calibration_changed",
                   BoolInt(c.calib_result.result), c.calib_result.tag)
    ELSE w

\* the result stored and announced whether it reports success or not
store_final_result_any(w, c) ==
    [NotifyAll(locked_write(w, "m_calib_result", c.calib_result),
               "calib_result", "on_calibration_changed",
               BoolInt(c.calib_result.result), c.calib_result.tag)
     EXCEPT !.m_calibration_proxy = clear(@)]

\* Engine::parse: if( calib_result.result ) { store, listener loop, m_calibration_proxy.clear() }
store_final_result(w, c) ==
    IF c.calib_result.result
    THEN [NotifyAll(locked_write(w, "m_calib_result", c.calib_result),
                    "calib_result", "on_calibration_changed",
                    BoolInt(c.calib_result.result), c.calib_result.tag)
          EXCEPT !.m_calibration_proxy = clear(@)]
    ELSE w

\* Engine::parse, the GAC_CALIBRATION / GAR_POINTEND branch
parse_pointend(w, values) ==
    LET w1 == [w EXCEPT !.m_calibration_proxy = point_end(@)]
        progress == get_progress(w1.m_calibration_proxy)
        w2 == NotifyAll(w1, "calib_process", "on_calibration_progress",
                        progress[1], progress[2])
        c == parse_calib_result(values)
        w3 == store_final_result(w2, c)
        w4 == NotifyAll(w3, "calib_process", "on_calibration_result",
                        BoolInt(c.calib_result.result), c.calib_result.tag)
    IN  IF ~c.ok THEN w2
        ELSE IF c.has_calib_result THEN w4
        ELSE w2

\* Engine::parse, the GAC_CALIBRATION branch
parse_calibration(w, reply, values) ==
    CASE reply.m_request = GAR_START ->
            NotifyAll(w, "calib_process", "on_calibration_started", 0, 0)
      [] reply.m_request = GAR_POINTEND -> parse_pointend(w, values)
      [] reply.m_request = GAR_ABORT -> [w EXCEPT !.m_calibration_proxy = clear(@)]
      [] reply.m_request = GAR_CLEAR -> locked_write(w, "m_calib_result", ClearedCalibResult)
      [] OTHER -> w

\* Engine::parse, from "if( reply.is( GAC_TRACKER ) )" on
parse_classified(w, reply, values) ==
    IF reply.m_category = GAC_TRACKER
    THEN IF reply.m_request = GAR_SET THEN w
         ELSE IF reply.m_request = GAR_GET THEN parse_tracker_get(w, values)
         ELSE w
    ELSE IF reply.m_category = GAC_CALIBRATION
    THEN parse_calibration(w, reply, values)
    ELSE w

\* parse without its discard of error replies
is_error_reply_never(reply) == FALSE

\* Engine::parse: if( reply.is( GASC_ERROR ) && !reply.is_notification() ) return;
is_error_reply(reply) == is(reply, GASC_ERROR) /\ ~is_notification(reply)

\* Engine::parse.  out is "throw" (read_json threw), "notify" (parse is at its
\* send_sync of the follow-up query) or "return".
parse(w, raw) ==
    LET r0 == [MessageReset EXCEPT !.m_id = parse_id(raw)]
        c == parse_category(raw.category)
        r1 == [r0 EXCEPT !.m_category = c.v]
        s == parse_status_code(raw.statuscode)
        r2 == [r1 EXCEPT !.m_statuscode = s.v]
        q == parse_request(raw.request)
        r3 == [r2 EXCEPT !.m_request = q.v]
    IN  IF ~raw.json THEN [out |-> "throw", w |-> w, reply |-> MessageReset]
        ELSE IF ~c.ok THEN [out |-> "return", w |-> w, reply |-> r0]
        ELSE IF ~s.ok THEN [out |-> "return", w |-> w, reply |-> r1]
        ELSE IF is_error_reply(r2)
        THEN [out |-> "return", w |-> w, reply |-> r2]
        ELSE IF is_notification(r2) THEN [out |-> "notify", w |-> w, reply |-> r2]
        ELSE IF ~is_notification(r2) /\ ~q.ok THEN [out |-> "return", w |-> w, reply |-> r2]
        ELSE [out |-> "return", w |-> parse_classified(w, r3, raw.values), reply |-> r3]

\* Engine::on_message after parse returned: if( msg.has_id() ) m_sync_requests[msg.m_id] = msg;
\* then the transport counts the message as dispatched.
on_message_done(w, msg) ==
    IF has_id(msg)
    THEN [w EXCEPT !.m_sync_requests = Store(@, msg.m_id, msg),
                   !.blk = ReleaseId(@, msg.m_id)]
    ELSE w

(***************************************************************************)
(* Inputs.  A behaviour explores one scenario, chosen initially:           *)
(*   "lifecycle"  connect and disconnect calls against servers of every    *)
(*                version, refused connections, lost connections;          *)
(*   "operations" one connect to a server of the required version, then    *)
(*                the other calls of the public interface, while a second  *)
(*                thread of the application reads the snapshots;           *)
(*   "dispatch"   one connect, then state queries, with every kind of      *)
(*                unsolicited message arriving;                            *)
(*   "calibration" one connect, then calibration runs of up to MaxRun      *)
(*                points, each call made once the reply to the previous    *)
(*                one has been dispatched, on a connection that stays up.  *)
(* A behaviour holds at most MaxEvents calls and unsolicited messages; in   *)
(* "operations" and "dispatch" the connect call comes on top of them.  In  *)
(* "calibration" it holds the connect, one calibration_start and MaxRun    *)
(* further calls.                                                          *)
(***************************************************************************)
Scenarios == {"lifecycle", "operations", "dispatch", "calibration"}

TrackerStates == {0, 1}
Screens == {0, 1}
PointCounts == 0..MaxPoints
RunCounts == 0..MaxRun

\* The scenarios in which a second thread of the application reads the snapshots.
ReaderScenarios == {"operations"}

ServerVersions(s) == IF s = "lifecycle" THEN {VERSION - 1, VERSION, VERSION + 1} ELSE {VERSION}

MayRefuse(s) == s = "lifecycle"

Ops(s) ==
    CASE s = "lifecycle" -> {"connect", "disconnect"}
      [] s = "operations" ->
            {"set_screen", "calibration_start", "calibration_point_start",
             "calibration_async", "disconnect"}
      [] s = "dispatch" -> {"update_server_state"}
      [] s = "calibration" -> {"calibration_start", "calibration_async"}

EventLimit(s) ==
    CASE s = "lifecycle" -> MaxEvents
      [] s = "calibration" -> MaxRun + 2
      [] OTHER -> MaxEvents + 1

\* In "calibration" the caller waits until the reply to its last request has been dispatched.
Settled == scn = "calibration" => (outbox = <<>> /\ inbox = <<>> /\ rpc = "idle")

\* May the caller start operation op now?
MayCall(op) ==
    /\ cpc = "idle"
    /\ calls + pushed < EventLimit(scn)
    /\ Settled
    /\ IF scn = "lifecycle" THEN op \in Ops(scn)
       ELSE IF calls = 0 THEN op = "connect" ELSE op \in Ops(scn)

(***************************************************************************)
(* Initial state: the engine as constructed, nothing connected, two        *)
(* listeners registered in every category.                                 *)
(***************************************************************************)
CLocIdle ==
    [op |-> "none", q |-> NoReq, saved |-> 0, wait |-> 0,
     ver |-> Absent, sv |-> "none", lost |-> FALSE, got |-> 0,
     pre |-> [m_point_count |-> 0, m_processed_points |-> 0, m_is_calibrating |-> FALSE]]

\* ret: the call that returned in the last step and its result, NoRet in every other state.
NoRet == [op |-> "none", val |-> "void"]

\* run: n is the point count of the last calibration_start call, idle0 whether the progress
\* tracker was Idle when it was made, k the number of calibration/point-end replies
\* dispatched since, reset whether a reply that ends the run (a successful result, an abort)
\* has been dispatched since.
NoRun == [started |-> FALSE, idle0 |-> TRUE, n |-> 0, k |-> 0, reset |-> FALSE]

run_started(proxy, point_count) ==
    [started |-> TRUE, idle0 |-> (proxy = IdleProxy), n |-> point_count, k |-> 0,
     reset |-> FALSE]

run_dispatched(r, raw) ==
    IF ~(r.started /\ raw.json /\ raw.category = "calibration" /\ raw.statuscode = 200)
    THEN r
    ELSE IF raw.request = "pointend"
    THEN [r EXCEPT !.k = @ + 1,
                   !.reset = @ \/ (raw.values.ok /\ raw.values.calib.has
                                     /\ raw.values.calib.result)]
    ELSE IF raw.request = "abort" THEN [r EXCEPT !.reset = TRUE]
    ELSE r
Returned(op, val) == [op |-> op, val |-> val]
Running(op) == NoRet
BoolVal(b) == IF b THEN "true" ELSE "false"

Init ==
    /\ m_state = AS_STOPPED
    /\ m_sync_requests = EmptyMap
    /\ m_server_proxy = ZeroServerState
    /\ m_gaze_data = ZeroGazeData
    /\ m_calib_result = ClearedCalibResult
    /\ m_screen = ZeroScreen
    /\ m_calibration_proxy = IdleProxy
    /\ m_sync_lock = "none"
    /\ observers = Registered
    /\ sock = FALSE
    /\ outbox = <<>>
    /\ inbox = <<>>
    /\ blk = [t \in Threads |-> NotBlocked]
    /\ srvVersion = 0
    /\ cpc = "idle"
    /\ cloc = CLocIdle
    /\ rpc = "idle"
    /\ rmsg = MessageReset
    /\ ret = NoRet
    /\ cev = <<>>
    /\ ev = <<>>
    /\ step = "init"
    /\ rin = NoRaw
    /\ calls = 0
    /\ pushed = 0
    /\ run = NoRun
    /\ reading = "none"
    /\ wr = {}
    /\ told = "none"
    /\ scn \in Scenarios

(***************************************************************************)
(* The caller thread.                                                      *)
(***************************************************************************)
CallerStep(name, w, pc, loc, r, new) ==
    /\ Commit(w)
    /\ cpc' = pc
    /\ cloc' = loc
    /\ ret' = r
    /\ cev' = (IF new THEN <<>> ELSE cev) \o w.ev
    /\ step' = name
    /\ calls' = IF new THEN calls + 1 ELSE calls
    /\ rin' = NoRaw
    /\ run' = (IF name = "calibration_start"
               THEN run_started(m_calibration_proxy, loc.q.arg) ELSE run)
    /\ UNCHANGED <<rpc, rmsg, pushed, reading, scn>>

\* The code that follows a send_sync (returned, or not entered), per calling operation.
Continue(name, w, loc, new) ==
    CASE loc.op = "connect_sv" ->
            \* connect: if( !set_version( VERSION ) ) { disconnect(); return false; } ... notify
            LET ok == sync_ok(w, SR_SET_VERSION)
                w1 == sync_touch(w, SR_SET_VERSION)
            IN  IF ~ok
                THEN CallerStep(name, disconnect(w1), "idle",
                                [loc EXCEPT !.sv = "false"], Returned("connect", "false"), new)
                ELSE CallerStep(name, connect_notify(w1), "c_gts",
                                [loc EXCEPT !.sv = "true"], Running("connect"), new)
      [] loc.op = "connect_gts" ->
            \* connect: get_tracker_state(); } return success;
            CallerStep(name, w, "idle", loc, Returned("connect", "true"), new)
      [] loc.op = "set_screen" ->
            CallerStep(name, sync_touch(w, SR_SET_SCREEN), "idle", loc,
                       Returned("set_screen", BoolVal(sync_ok(w, SR_SET_SCREEN))), new)
      [] loc.op = "calibration_start" ->
            CallerStep(name, sync_touch(w, SR_CALIB_START), "idle", loc,
                       Returned("calibration_start", BoolVal(sync_ok(w, SR_CALIB_START))), new)
      [] loc.op = "calibration_point_start" ->
            CallerStep(name, sync_touch(w, SR_CALIB_POINT_START), "idle", loc,
                       Returned("calibration_point_start",
                                BoolVal(sync_ok(w, SR_CALIB_POINT_START))), new)
      [] loc.op = "update_server_state" ->
            CallerStep(name, w, "idle", loc, Returned("update_server_state", "void"), new)

\* Engine::send_sync as called by the caller thread in operation loc.op
SyncEnter(name, w, q, loc, new) ==
    IF send_sync_enters(w, q)
    THEN IF w.m_sync_lock = "none"
         THEN CallerStep(name, send_sync_locked(w, "caller", q), "wait",
                         [loc EXCEPT !.q = q], Running(loc.op), new)
         ELSE CallerStep(name, w, "lock", [loc EXCEPT !.q = q], Running(loc.op), new)
    ELSE Continue(name, w, [loc EXCEPT !.q = q], new)

\* GazeApi::connect -> Engine::connect, up to the poll of get_default_version
Connect ==
    /\ MayCall("connect")
    /\ IF connect_rejected(World)
       THEN CallerStep("connect", World, "idle", [CLocIdle EXCEPT !.op = "connect"],
                       Returned("connect", "false"), TRUE)
       ELSE \/ /\ MayRefuse(scn)
               /\ CallerStep("connect", connect_refused(World), "idle",
                             [CLocIdle EXCEPT !.op = "connect"],
                             Returned("connect", "false"), TRUE)
            \/ \E v \in ServerVersions(scn) :
                  CallerStep("connect", connect_open(World, v), "c_poll",
                             [CLocIdle EXCEPT !.op = "connect",
                                              !.saved = ZeroServerState.version,
                                              !.wait = MaxWait],
                             Running("connect"), TRUE)

\* get_default_version: one turn of the poll loop (sleep 1 ms, --wait)
ConnectPollSleep ==
    /\ cpc = "c_poll"
    /\ m_server_proxy.version = 0 /\ cloc.wait > 0
    /\ CallerStep("poll_sleep", World, "c_poll", [cloc EXCEPT !.wait = @ - 1],
                  Running("connect"), FALSE)

\* get_default_version after the loop, and connect up to the block in set_version
ConnectVersionChecked ==
    /\ cpc = "c_poll"
    /\ ~(m_server_proxy.version = 0 /\ cloc.wait > 0)
    /\ LET version == m_server_proxy.version
           w1 == swap_version(World, cloc.saved)
           loc == [cloc EXCEPT !.ver = version, !.op = "connect_sv"]
       IN  IF unsupported(version)
           THEN CallerStep("version_checked", disconnect(w1), "idle", loc,
                           Returned("connect", "false"), FALSE)
           ELSE SyncEnter("version_checked", w1, ReqSetVersion(VERSION), loc, FALSE)

\* connect: get_tracker_state()
ConnectBaseline ==
    /\ cpc = "c_gts"
    /\ SyncEnter("baseline", World, ReqTrackerState, [cloc EXCEPT !.op = "connect_gts"], FALSE)

\* Engine::send_sync: m_sync_lock.lock() succeeds after waiting for the holder
CallerLock ==
    /\ cpc = "lock"
    /\ m_sync_lock = "none"
    /\ CallerStep("lock", send_sync_locked(World, "caller", cloc.q), "wait", cloc, NoRet, FALSE)

\* m_socket.send_sync returns: unlock, and the code that follows in the calling operation
CallerWake ==
    /\ cpc = "wait"
    /\ blk["caller"].st = "released"
    /\ Continue("wake", send_sync_unlock(World, "caller"), cloc, FALSE)

\* GazeApi::disconnect
Disconnect ==
    /\ MayCall("disconnect")
    /\ CallerStep("disconnect", disconnect(World), "idle",
                  [CLocIdle EXCEPT !.op = "disconnect"], Returned("disconnect", "void"), TRUE)

\* GazeApi::set_screen
SetScreen ==
    /\ MayCall("set_screen")
    /\ \E screen \in {1} :
          SyncEnter("set_screen", World, ReqSetScreen(screen),
                    [CLocIdle EXCEPT !.op = "set_screen"], TRUE)

\* GazeApi::calibration_start
CalibrationStart ==
    /\ MayCall("calibration_start")
    /\ \E point_count \in (IF scn = "calibration" THEN RunCounts ELSE PointCounts) :
          SyncEnter("calibration_start",
                    [World EXCEPT !.m_calibration_proxy = start_calibration(@, point_count)],
                    ReqCalibStart(point_count),
                    [CLocIdle EXCEPT !.op = "calibration_start", !.pre = m_calibration_proxy],
                    TRUE)

\* GazeApi::calibration_point_start
CalibrationPointStart ==
    /\ MayCall("calibration_point_start")
    /\ SyncEnter("calibration_point_start", World, ReqCalibPointStart,
                 [CLocIdle EXCEPT !.op = "calibration_point_start"], TRUE)

\* GazeApi::update_server_state -> get_tracker_state
UpdateServerState ==
    /\ MayCall("update_server_state")
    /\ SyncEnter("update_server_state", World, ReqTrackerState,
                 [CLocIdle EXCEPT !.op = "update_server_state"], TRUE)

\* GazeApi::calibration_clear, calibration_abort, calibration_point_end
CalibrationAsync ==
    /\ MayCall("calibration_async")
    /\ \E q \in {ReqCalibClear, ReqCalibAbort, ReqCalibPointEnd} :
          CallerStep("calibration_" \o q.request, send_async(World, q), "idle",
                     [CLocIdle EXCEPT !.op = "calibration_" \o q.request, !.q = q],
                     Returned("calibration_" \o q.request, "void"), TRUE)

CallerSteps ==
    {"connect", "poll_sleep", "version_checked", "baseline", "lock", "wake", "disconnect",
     "set_screen", "calibration_start", "calibration_point_start", "update_server_state",
     "calibration_clear", "calibration_abort", "calibration_pointend"}

(***************************************************************************)
(* The receive context of the transport.                                   *)
(***************************************************************************)
RxStep(name, w, pc, msg, loc) ==
    /\ Commit(w)
    /\ rin' = (IF name = "rx_message" THEN Head(inbox) ELSE NoRaw)
    /\ rpc' = pc
    /\ rmsg' = msg
    /\ step' = name
    /\ cloc' = (IF cpc = "idle" THEN CLocIdle ELSE loc)
    /\ cev' = (IF cpc = "idle" THEN <<>> ELSE cev)
    /\ ret' = NoRet
    /\ run' = (IF name = "rx_message" THEN run_dispatched(run, Head(inbox)) ELSE run)
    /\ UNCHANGED <<cpc, calls, pushed, reading, scn>>

\* The guards that the writes of a step take are free: lock() does not have to wait.
GuardsFree(writes) == \A x \in writes : x.held => GuardOf(x.field) # reading

\* Engine::on_message for the next message received
RxMessage ==
    /\ rpc = "idle"
    /\ inbox # <<>>
    /\ Head(inbox).kind = "msg"
    /\ LET raw == Head(inbox)
           w0 == [World EXCEPT !.inbox = Tail(@)]
           p == parse(w0, raw)
           q == ReqChanges(p.reply.m_statuscode)
           \* for the record: the status of the reply the blocked caller waits for
           loc == IF blk["caller"].st = "wait" /\ has_id(p.reply)
                     /\ p.reply.m_id = blk["caller"].id
                  THEN [cloc EXCEPT !.got = raw.statuscode]
                  ELSE cloc
       IN  /\ GuardsFree(p.w.wr)
           /\ CASE p.out = "throw" -> RxStep("rx_message", w0, "idle", MessageReset, cloc)
                [] p.out = "return" ->
                       RxStep("rx_message", on_message_done(p.w, p.reply), "idle",
                              MessageReset, loc)
                [] p.out = "notify" ->
                       IF send_sync_enters(w0, q)
                       THEN IF w0.m_sync_lock = "none"
                            THEN RxStep("rx_message", send_sync_locked(w0, "rx", q), "n_wait",
                                        p.reply, cloc)
                            ELSE RxStep("rx_message", w0, "n_lock", p.reply, cloc)
                       ELSE RxStep("rx_message", on_message_done(w0, p.reply), "idle",
                                   MessageReset, cloc)

\* parse of a notification: m_sync_lock.lock() succeeds after waiting for the holder
RxLock ==
    /\ rpc = "n_lock"
    /\ m_sync_lock = "none"
    /\ RxStep("rx_lock", send_sync_locked(World, "rx", ReqChanges(rmsg.m_statuscode)),
              "n_wait", rmsg, cloc)

\* parse of a notification: m_socket.send_sync returns, parse returns, on_message ends
RxWake ==
    /\ rpc = "n_wait"
    /\ blk["rx"].st = "released"
    /\ RxStep("rx_wake", on_message_done(send_sync_unlock(World, "rx"), rmsg), "idle",
              MessageReset, cloc)

\* Engine::on_disconnected, called by the transport after the connection was lost
RxDisconnected ==
    /\ rpc = "idle"
    /\ inbox # <<>>
    /\ Head(inbox).kind = "lost"
    /\ RxStep("rx_disconnected", on_disconnected([World EXCEPT !.inbox = Tail(@)]), "idle",
              MessageReset, [cloc EXCEPT !.lost = (cpc # "idle")])

(***************************************************************************)
(* A thread of the application that reads snapshots with get_frame,        *)
(* get_calib_result and get_screen.                                        *)
(***************************************************************************)
ReaderStep(name, guard) ==
    /\ reading' = guard
    /\ step' = name
    /\ ev' = <<>>
    /\ wr' = {}
    /\ rin' = NoRaw
    /\ ret' = NoRet
    /\ cloc' = (IF cpc = "idle" THEN CLocIdle ELSE cloc)
    /\ cev' = (IF cpc = "idle" THEN <<>> ELSE cev)
    /\ UNCHANGED <<m_state, m_sync_requests, m_server_proxy, m_gaze_data, m_calib_result,
                   m_screen, m_calibration_proxy, m_sync_lock, observers, sock, outbox,
                   inbox, blk, srvVersion, cpc, rpc, rmsg, calls, pushed, run, told, scn>>

\* get_frame, get_calib_result, get_screen: lock() of the snapshot's guard
ReaderLock ==
    /\ scn \in ReaderScenarios
    /\ reading = "none"
    /\ \E guard \in Guards : ReaderStep("reader_lock", guard)

\* get_frame, get_calib_result, get_screen: the copy and unlock()
ReaderUnlock ==
    /\ reading # "none"
    /\ ReaderStep("reader_unlock", "none")

(***************************************************************************)
(* The environment: the server and the network.                            *)
(***************************************************************************)
EnvStep(name, w) ==
    /\ Commit(w)
    /\ rin' = NoRaw
    /\ step' = name
    /\ cloc' = (IF cpc = "idle" THEN CLocIdle ELSE cloc)
    /\ cev' = (IF cpc = "idle" THEN <<>> ELSE cev)
    /\ ret' = NoRet
    /\ UNCHANGED <<cpc, rpc, rmsg, calls, run, reading, scn>>

\* The states the server may report: every combination in "dispatch", one elsewhere.
StatePayloads(values, version) ==
    { Payload(TRUE, IF "version" \in values THEN version ELSE Absent, ts, sc, fr, cal) :
        ts \in (IF "trackerstate" \in values
                THEN (IF scn = "dispatch" THEN TrackerStates ELSE {1}) ELSE {Absent}),
        sc \in (IF ScreenValues \subseteq values
                THEN (IF scn = "dispatch" THEN Screens ELSE {1}) ELSE {Absent}),
        fr \in (IF "frame" \in values THEN {1} ELSE {Absent}),
        cal \in (IF "calibresult" \in values
                 THEN (IF scn = "dispatch" THEN {NoCalib, CalibGood} ELSE {CalibGood})
                 ELSE {NoCalib}) }

\* A payload that differs from every snapshot the engine can hold after a reply.
StrangePayload == Payload(TRUE, 9, 9, 9, 9, [CalibGood EXCEPT !.tag = 9])

\* What the server may answer to request q.
Replies(q, version) ==
    CASE q.category = "tracker" /\ q.request = "get" /\ q.id = NoId ->
            { Raw(TRUE, q.id, "tracker", 200, "get", p) : p \in StatePayloads(q.values, version) }
      [] q.category = "tracker" /\ q.request = "get" /\ q.id # NoId ->
            { Raw(TRUE, q.id, "tracker", 200, "get", p) : p \in StatePayloads(q.values, version) }
            \cup { Raw(TRUE, q.id, "tracker", 500, "get", StrangePayload) }
      [] q.request = "pointend" ->
            { Raw(TRUE, q.id, q.category, 200, q.request,
                  [NoPayload EXCEPT !.calib = c]) : c \in {NoCalib, CalibGood, CalibFailed} }
      [] q.id = NoId ->
            { Raw(TRUE, q.id, q.category, 200, q.request, NoPayload) }
      [] OTHER ->
            { Raw(TRUE, q.id, q.category, code, q.request, NoPayload) : code \in {200, 500} }

\* The server answers the oldest request.
SrvReply ==
    /\ sock
    /\ outbox # <<>>
    /\ \E r \in Replies(Head(outbox), srvVersion) :
          EnvStep("srv_reply", [World EXCEPT !.outbox = Tail(@), !.inbox = Append(@, r)])
    /\ UNCHANGED pushed

\* Messages no request asked for: the three notifications, and broken or error messages.
Notifications ==
    { Raw(TRUE, NoId, "tracker", code, "get", StrangePayload) : code \in {800, 801, 802} }

Broken ==
         { Raw(FALSE, NoId, "tracker", 200, "get", StrangePayload),
           Raw(TRUE, NoId, BadText, 200, "get", StrangePayload),
           Raw(TRUE, NoId, "tracker", 0, "get", StrangePayload),
           Raw(TRUE, NoId, "tracker", 200, BadText, StrangePayload),
           Raw(TRUE, NoId, "tracker", 500, "get", StrangePayload),
           Raw(TRUE, NoId, "tracker", 200, "get", [StrangePayload EXCEPT !.ok = FALSE]) }

Unsolicited(s) ==
    CASE s = "lifecycle" -> { Raw(TRUE, NoId, "tracker", 802, "get", StrangePayload) }
      [] s = "operations" -> { Raw(TRUE, NoId, "tracker", 801, "get", StrangePayload) }
      [] s = "dispatch" -> Notifications \cup Broken
      [] s = "calibration" -> {}

\* Outside "lifecycle" the handshake of the one connect call runs undisturbed.
Handshake == cpc # "idle" /\ cloc.op \in {"connect", "connect_sv", "connect_gts"}

Disturbed == scn = "lifecycle" \/ (scn # "calibration" /\ ~Handshake)

SrvPush ==
    /\ sock
    /\ Disturbed
    /\ calls + pushed < EventLimit(scn)
    /\ \E r \in Unsolicited(scn) :
          EnvStep("srv_push", [World EXCEPT !.inbox = Append(@, r)])
    /\ pushed' = pushed + 1

\* The connection is lost: what was not yet delivered is gone, the transport fails the
\* blocked sends and has on_disconnected to call.
ConnLost ==
    /\ sock
    /\ Disturbed
    /\ EnvStep("conn_lost",
               [World EXCEPT !.sock = FALSE, !.outbox = <<>>, !.inbox = <<Lost>>,
                             !.blk = ReleaseAll(@), !.srvVersion = 0])
    /\ UNCHANGED pushed

Next ==
    \/ Connect
    \/ ConnectPollSleep
    \/ ConnectVersionChecked
    \/ ConnectBaseline
    \/ CallerLock
    \/ CallerWake
    \/ Disconnect
    \/ SetScreen
    \/ CalibrationStart
    \/ CalibrationPointStart
    \/ UpdateServerState
    \/ CalibrationAsync
    \/ RxMessage
    \/ RxLock
    \/ RxWake
    \/ RxDisconnected
    \/ ReaderLock
    \/ ReaderUnlock
    \/ SrvReply
    \/ SrvPush
    \/ ConnLost

Spec == Init /\ [][Next]_vars

\* What runs whenever it can: the receive context of the transport, a call of the caller
\* thread that has started, and the server answering a request it has received. A new
\* call, an unsolicited message and the loss of the connection may never happen.
Scheduled ==
    \/ RxMessage
    \/ RxLock
    \/ RxWake
    \/ RxDisconnected
    \/ ConnectPollSleep
    \/ ConnectVersionChecked
    \/ ConnectBaseline
    \/ CallerLock
    \/ CallerWake
    \/ ReaderUnlock
    \/ SrvReply

FairSpec == Spec /\ WF_vars(Scheduled)

(***************************************************************************)
(* What the properties below read from a run: the events of a step (ev)    *)
(* or of the running call (cev), in the order they happened.               *)
(***************************************************************************)
Notified(evs) == SelectSeq(evs, LAMBDA e : e.k = "notify")
Sent(evs, id) == SelectSeq(evs, LAMBDA e : e.k = "send" /\ e.q.id = id)
SockCalls(evs, a) == SelectSeq(evs, LAMBDA e : e.k = "sock" /\ e.a = a)

\* Every registered connection-state listener, in order, told the value m once.
ConnectionStateTold(m) ==
    [i \in 1..Len(observers["connection_state"]) |->
        [k |-> "notify", a |-> "on_connection_state_changed",
         n |-> observers["connection_state"][i], m |-> m, d |-> 0, q |-> NoReq]]

\* The full-state query: tracker/get, id SR_GET_TRACKER_STATE, all twelve values.
BaselineQuery ==
    [k |-> "send", a |-> "get", n |-> 0, m |-> 0, d |-> 0,
     q |-> [id |-> 2, category |-> "tracker", request |-> "get", arg |-> 0,
            values |-> {"version", "trackerstate", "framerate", "iscalibrated",
                        "iscalibrating", "calibresult", "frame", "screenindex",
                        "screenresw", "screenresh", "screenpsyw", "screenpsyh"}]]

Snapshots == <<m_server_proxy, m_gaze_data, m_calib_result, m_screen>>

\* connect() has just returned after a handshake in which the server reported a
\* supported version and the set-version reply recorded in the correlator is ok.
HandshakeAcknowledged ==
    /\ ret.op = "connect"
    /\ cloc.ver >= 2
    /\ 32 \in DOMAIN m_sync_requests
    /\ m_sync_requests[32].m_statuscode = GASC_OK

\* What C1 promises of the call that has just returned.
ConnectedAndQueried ==
    /\ ret.val = "true"
    /\ m_state = AS_RUNNING
    /\ Notified(cev) = ConnectionStateTold(1)
    /\ Sent(cev, 2) = <<BaselineQuery>>
    /\ \A i, j \in 1..Len(cev) : cev[i].k = "notify" /\ cev[j] = BaselineQuery => i < j

C2_OldServerRejected ==
    (ret.op = "connect" /\ cloc.ver # Absent /\ cloc.ver < 2) =>
        /\ ret.val = "false"
        /\ m_state = AS_STOPPED
        /\ ~sock
        /\ Len(SockCalls(cev, "disconnect")) = (IF cloc.lost THEN 0 ELSE 1)
        /\ Sent(cev, 32) = <<>>
        /\ Sent(cev, 2) = <<>>
        /\ Notified(cev) = <<>>

C2_OldServerSeen ==
    /\ ret.op = "connect" /\ cloc.ver = 1 /\ ret.val = "false"
    /\ Len(SockCalls(cev, "disconnect")) = 1

\* C3: when connect() returns after the server reported a supported version but the correlator
\* holds no ok set-version reply (an error reply, or none), it returns false, the engine is
\* Stopped and the transport disconnected, no listener was notified and no baseline query sent.
C3_UnacknowledgedRejected ==
    (ret.op = "connect" /\ cloc.ver >= 2 /\ ~HandshakeAcknowledged) =>
        /\ ret.val = "false"
        /\ m_state = AS_STOPPED
        /\ ~sock
        /\ Len(SockCalls(cev, "disconnect")) = (IF cloc.lost THEN 0 ELSE 1)
        /\ Notified(cev) = <<>>
        /\ Sent(cev, 2) = <<>>

C3_ErrorReplySeen ==
    /\ ret.op = "connect" /\ cloc.ver >= 2 /\ ret.val = "false"
    /\ 32 \in DOMAIN m_sync_requests
    /\ m_sync_requests[32].m_id = 32
    /\ m_sync_requests[32].m_statuscode = GASC_ERROR

\* C4: a connect() called while the engine is not Stopped returns false at once and changes
\* nothing: state, correlator and snapshots stay, the transport is not touched (no connect, no
\* send), and no listener is notified.
C4_ConnectWhileRunningIsNoOp ==
    [][(step' = "connect" /\ m_state # AS_STOPPED) =>
          /\ ret' = [op |-> "connect", val |-> "false"]
          /\ ev' = <<>>
          /\ UNCHANGED <<m_state, m_sync_requests, Snapshots, m_calibration_proxy,
                         m_sync_lock, sock, outbox, inbox, blk>>]_vars

C4_RejectedWhileRunning ==
    /\ step = "connect" /\ m_state = AS_RUNNING /\ sock
    /\ ret = [op |-> "connect", val |-> "false"] /\ cev = <<>>

\* A connect() is between its call and the acknowledgement of set-version.
HandshakePending ==
    /\ cpc # "idle"
    /\ cloc.op \in {"connect", "connect_sv"}
    /\ cloc.sv # "true"

\* C5: the engine is Running (is_connected() reports true) only once the handshake of the
\* current connection has fully succeeded: never while a connect() still waits for the
\* server's version or for the set-version acknowledgement.
C5_RunningOnlyAfterHandshake == m_state = AS_RUNNING => ~HandshakePending

\* C6: disconnect() on an engine that is not Stopped makes it Stopped and tells the transport
\* to disconnect exactly once; on a Stopped engine it changes nothing and calls nothing; it
\* never notifies a listener.
C6_DisconnectIdempotent ==
    [][step' = "disconnect" =>
          /\ m_state' = AS_STOPPED
          /\ Notified(ev') = <<>>
          /\ IF m_state # AS_STOPPED
             THEN ev' = <<[k |-> "sock", a |-> "disconnect", n |-> 0, m |-> 0, d |-> 0,
                           q |-> NoReq]>> /\ ~sock'
             ELSE ev' = <<>> /\ UNCHANGED <<m_state, m_sync_requests, Snapshots,
                                            m_calibration_proxy, m_sync_lock,
                                            sock, outbox, inbox, blk>>]_vars

C6_DisconnectedTwice ==
    /\ step = "disconnect" /\ ev = <<>> /\ m_state = AS_STOPPED
    /\ calls = 3 /\ pushed = 0 /\ 32 \in DOMAIN m_sync_requests

\* C7: every on_disconnected leaves the engine Stopped and tells each connection-state listener
\* false exactly once; it never asks the transport to connect, nor does any other step but an
\* explicit connect() call, which is also the only step that makes the engine Running.
C7_DisconnectedStaysStopped ==
    [][/\ step' = "rx_disconnected" =>
             /\ m_state' = AS_STOPPED
             /\ Notified(ev') = ConnectionStateTold(0)'
             /\ SockCalls(ev', "connect") = <<>>
       /\ (m_state' = AS_RUNNING /\ m_state # AS_RUNNING) => step' = "connect"
       /\ SockCalls(ev', "connect") # <<>> => step' = "connect"]_vars

C7_LossReported ==
    /\ step = "rx_disconnected" /\ m_state = AS_STOPPED /\ ~sock
    /\ Len(Notified(ev)) = 2 /\ Len(SockCalls(ev, "disconnect")) = 1

\* The caller's synchronous operations, by the fixed id each sends under.
SyncIdOf(op) ==
    CASE op = "set_screen" -> 128
      [] op = "calibration_start" -> 256
      [] op = "calibration_point_start" -> 512
      [] OTHER -> 0

\* C8: a synchronous operation that sends its request has, in the same step, reset the
\* correlator slot of its id and blocked in the transport; when it returns, the result is true
\* exactly when the reply dispatched to it while it was blocked had status ok (200), and an
\* error reply (500) is then found recorded in the slot under the operation's id.  The same
\* holds of set_version within connect().
C8_SyncResultIsReplyStatus ==
    [][/\ \A id \in {32, 128, 256, 512} :
             (step' \in CallerSteps /\ Sent(ev', id) # <<>>) =>
                 /\ Len(Sent(ev', id)) = 1
                 /\ id \in DOMAIN m_sync_requests'
                 /\ m_sync_requests'[id] = [m_id |-> -1, m_statuscode |-> GASC_ERROR,
                                            m_category |-> GAC_UNKNOWN,
                                            m_request |-> GAR_UNKNOWN]
                 /\ cpc' = "wait" /\ blk'["caller"].id = id /\ ret'.op = "none"
       /\ (SyncIdOf(ret'.op) # 0 /\ Sent(cev', SyncIdOf(ret'.op)) # <<>>) =>
             /\ ret'.val = "true" <=> cloc'.got = 200
             /\ cloc'.got = 500 =>
                   /\ m_sync_requests'[SyncIdOf(ret'.op)].m_id = SyncIdOf(ret'.op)
                   /\ m_sync_requests'[SyncIdOf(ret'.op)].m_statuscode = GASC_ERROR
                   /\ ret'.val = "false"
       /\ (step' = "wake" /\ cloc.op = "connect_sv" /\ cloc.sv = "none") =>
             /\ cloc'.sv = "true" <=> cloc'.got = 200
             /\ cloc'.got = 500 => ret' = [op |-> "connect", val |-> "false"]]_vars

C8_ErrorReplyReturnsFalse ==
    /\ ret = [op |-> "set_screen", val |-> "false"]
    /\ cloc.got = 500
    /\ Len(Sent(cev, 128)) = 1
    /\ m_sync_requests[128].m_id = 128 /\ m_sync_requests[128].m_statuscode = GASC_ERROR

\* A message with one of the three notification status codes.
NotificationCodes == {800, 801, 802}

\* The follow-up a notification asks for: tracker/get under id SR_GET_CHANGES.
FollowUp(values) ==
    [k |-> "send", a |-> "get", n |-> 0, m |-> 0, d |-> 0,
     q |-> [id |-> 16, category |-> "tracker", request |-> "get", arg |-> 0,
            values |-> values]]

FollowUpValues(code) ==
    CASE code = 800 -> {"calibresult", "iscalibrated", "iscalibrating"}
      [] code = 801 -> {"screenindex", "screenresw", "screenresh", "screenpsyw", "screenpsyh"}
      [] code = 802 -> {"trackerstate"}

\* The wire code of the notification the receive context is handling.
WireCode(statuscode) ==
    CASE statuscode = GASC_CALIBRATION_CHANGE -> 800
      [] statuscode = GASC_DISPLAY_CHANGE -> 801
      [] statuscode = GASC_TRACKER_STATE_CHANGE -> 802

Wellformed(raw) ==
    /\ raw.kind = "msg" /\ raw.json
    /\ raw.category \in {"tracker", "calibration"}
    /\ raw.statuscode \in {200, 500} \cup NotificationCodes

\* C9: the dispatch of a notification message (status 800, 801 or 802) changes no snapshot
\* and notifies no listener; received while the engine is Running it sends the one follow-up
\* tracker/get that asks for just the fields of that notification, and nothing else: in the
\* same step when the send lock is free, otherwise as the first and only thing the receive
\* context does once it has the lock.  No other step of the receive context sends anything.
C9_NotificationAsksOnce ==
    [][/\ (step' = "rx_message" /\ Wellformed(rin') /\ rin'.statuscode \in NotificationCodes) =>
             /\ UNCHANGED <<Snapshots, m_calibration_proxy>>
             /\ Notified(ev') = <<>>
             /\ m_state = AS_RUNNING =>
                   IF m_sync_lock = "none"
                   THEN ev' = <<FollowUp(FollowUpValues(rin'.statuscode))>> /\ rpc' = "n_wait"
                   ELSE ev' = <<>> /\ rpc' = "n_lock"
             /\ m_state # AS_RUNNING => ev' = <<>> /\ rpc' = "idle"
       /\ step' = "rx_lock" =>
             /\ rpc = "n_lock" /\ rpc' = "n_wait"
             /\ ev' = <<FollowUp(FollowUpValues(WireCode(rmsg.m_statuscode)))>>
             /\ UNCHANGED <<Snapshots, m_calibration_proxy>>
       /\ step' = "rx_wake" =>
             /\ rpc = "n_wait" /\ rpc' = "idle"
             /\ ev' = <<>>
             /\ UNCHANGED <<Snapshots, m_calibration_proxy>>
       /\ (step' = "rx_message" /\ ~(rin'.statuscode \in NotificationCodes)) =>
             \A i \in 1..Len(ev') : ev'[i].k # "send"]_vars

C9_FollowUpSent ==
    /\ step = "rx_message" /\ rin.statuscode = 801 /\ rpc = "n_wait"
    /\ ev = <<FollowUp({"screenindex", "screenresw", "screenresh", "screenpsyw",
                        "screenpsyh"})>>
    /\ m_screen # rin.values.screen

\* A message the dispatch rejects: not JSON, or an unknown category, status code or request.
Malformed(raw) ==
    /\ raw.kind = "msg"
    /\ \/ ~raw.json
       \/ raw.category \notin {"tracker", "calibration"}
       \/ raw.statuscode \notin {200, 500} \cup NotificationCodes
       \/ raw.request \notin {"get", "set", "start", "pointstart", "pointend", "abort",
                              "clear"}

ErrorReply(raw) == raw.kind = "msg" /\ raw.statuscode = 500

\* C10: the dispatch of a malformed message, or of a message with error status (which is not
\* a notification), notifies no listener of any category and leaves the server-state, gaze,
\* calibration-result and screen snapshots and the calibration progress tracker as they were.
C10_BadMessageChangesNothing ==
    [][(step' = "rx_message" /\ (Malformed(rin') \/ ErrorReply(rin'))) =>
          /\ Notified(ev') = <<>>
          /\ UNCHANGED <<Snapshots, m_calibration_proxy>>]_vars

C10_ErrorReplyDiscarded ==
    /\ step = "rx_message" /\ ErrorReply(rin) /\ ~Malformed(rin)
    /\ rin.values.ok /\ rin.values.screen # m_screen
    /\ m_state = AS_RUNNING

(***************************************************************************)
(* The dispatch of replies.                                                *)
(***************************************************************************)
\* The calls of callback a among the events evs, in order.
Called(evs, a) == SelectSeq(evs, LAMBDA e : e.k = "notify" /\ e.a = a)

\* Every listener registered in category c, in registration order, called once as a(m, d).
EachTold(c, a, m, d) ==
    [i \in 1..Len(Registered[c]) |->
        [k |-> "notify", a |-> a, n |-> Registered[c][i], m |-> m, d |-> d, q |-> NoReq]]

\* A tracker/get reply with status ok whose payload the parser accepts.
StateReply(raw) ==
    /\ raw.kind = "msg" /\ raw.json
    /\ raw.category = "tracker" /\ raw.statuscode = 200 /\ raw.request = "get"
    /\ raw.values.ok

\* The screen geometry, tracker state a reply leaves the engine with.
ScreenAfter(raw, old) == IF raw.values.screen = Absent THEN old ELSE raw.values.screen
TrackerStateAfter(raw, old) ==
    IF raw.values.trackerstate = Absent THEN old ELSE raw.values.trackerstate

\* C11: the dispatch of a tracker/get reply whose screen geometry differs from the stored
\* screen snapshot stores the new geometry and calls on_screen_state_changed once on each
\* tracker-state listener with it; a reply whose geometry equals the snapshot (or that carries
\* none) calls no on_screen_state_changed and leaves the snapshot as it was.
C11_ScreenChangeToldOnce ==
    [][(step' = "rx_message" /\ StateReply(rin')) =>
          IF ScreenAfter(rin', m_screen) # m_screen
          THEN /\ m_screen' = rin'.values.screen
               /\ Called(ev', "on_screen_state_changed") =
                     EachTold("tracker_state", "on_screen_state_changed",
                              rin'.values.screen, 0)
          ELSE /\ m_screen' = m_screen
               /\ Called(ev', "on_screen_state_changed") = <<>>]_vars

C11_ScreenChanged ==
    /\ step = "rx_message" /\ StateReply(rin) /\ scn = "dispatch"
    /\ rin.values.screen = 1 /\ m_screen = 1
    /\ Len(Called(ev, "on_screen_state_changed")) = 2

\* C12: the dispatch of a tracker/get reply whose tracker connection state differs from the
\* one the server-state snapshot held before calls on_tracker_connection_changed once on each
\* tracker-state listener, with the new value, which the snapshot then holds; a reply that
\* does not change the tracker connection state calls none.
C12_TrackerStateChangeToldOnce ==
    [][(step' = "rx_message" /\ StateReply(rin')) =>
          /\ m_server_proxy'.trackerstate =
                TrackerStateAfter(rin', m_server_proxy.trackerstate)
          /\ IF TrackerStateAfter(rin', m_server_proxy.trackerstate)
                   # m_server_proxy.trackerstate
             THEN Called(ev', "on_tracker_connection_changed") =
                     EachTold("tracker_state", "on_tracker_connection_changed",
                              rin'.values.trackerstate, 0)
             ELSE Called(ev', "on_tracker_connection_changed") = <<>>]_vars

C12_TrackerStateChanged ==
    /\ step = "rx_message" /\ StateReply(rin) /\ scn = "dispatch"
    /\ rin.values.trackerstate = 1 /\ m_server_proxy.trackerstate = 1
    /\ Len(Called(ev, "on_tracker_connection_changed")) = 2
    /\ Called(ev, "on_tracker_connection_changed")[1].m = 1

\* GazeApi::get_frame: a copy of the gaze snapshot
get_frame == m_gaze_data

\* C13: the dispatch of a tracker/get reply that carries a gaze sample stores the sample as
\* the gaze snapshot and calls on_gaze_data once on each gaze listener with it, so that
\* get_frame() then returns it; a reply without a gaze sample leaves the gaze snapshot as it
\* was and calls no gaze listener.
C13_GazeSampleStoredAndTold ==
    [][(step' = "rx_message" /\ StateReply(rin')) =>
          IF rin'.values.frame # Absent
          THEN /\ get_frame' = rin'.values.frame
               /\ Called(ev', "on_gaze_data") =
                     EachTold("gaze", "on_gaze_data", rin'.values.frame, 0)
          ELSE /\ get_frame' = get_frame
               /\ Called(ev', "on_gaze_data") = <<>>]_vars

C13_GazeSampleStored ==
    /\ step = "rx_message" /\ StateReply(rin)
    /\ rin.values.frame = 1 /\ get_frame = 1
    /\ Called(ev, "on_gaze_data") = EachTold("gaze", "on_gaze_data", 1, 0)

(***************************************************************************)
(* Calibration runs.                                                       *)
(***************************************************************************)
\* A calibration/point-end reply with status ok.
PointEndReply(raw) ==
    /\ raw.kind = "msg" /\ raw.json
    /\ raw.category = "calibration" /\ raw.statuscode = 200 /\ raw.request = "pointend"

\* The progress k of n as it is published: k/n, and 0 when n is 0.
Fraction(k, n) == IF n = 0 THEN <<0, 1>> ELSE <<k, n>>

ProgressTold(k, n) ==
    EachTold("calib_process", "on_calibration_progress", Fraction(k, n)[1], Fraction(k, n)[2])

\* A run that began with calibration_start(N) on an Idle tracker and has not been ended by
\* a successful result or an abort.
RunFromIdle == run.started /\ run.idle0 /\ ~run.reset

\* C14: in a run started with calibration_start(N) on an Idle progress tracker, the dispatch of
\* the k-th calibration/point-end reply publishes the progress k/N to each calibration-process
\* listener (0 when N = 0), the tracker holds processed = k and total = N, and is_done() is
\* true exactly when k = N.
C14_ProgressIsKOverN ==
    [][/\ (step' = "rx_message" /\ PointEndReply(rin') /\ RunFromIdle) =>
             /\ run'.k = run.k + 1
             /\ Called(ev', "on_calibration_progress") = ProgressTold(run'.k, run.n)
       /\ RunFromIdle' =>
             /\ m_calibration_proxy'.m_point_count = run'.n
             /\ m_calibration_proxy'.m_processed_points = run'.k
             /\ is_done(m_calibration_proxy') <=> run'.k = run'.n]_vars

C14_LastPointOfFive ==
    /\ step = "rx_message" /\ PointEndReply(rin) /\ RunFromIdle
    /\ run.n = 5 /\ run.k = 5
    /\ Called(ev, "on_calibration_progress") =
          EachTold("calib_process", "on_calibration_progress", 5, 5)
    /\ is_done(m_calibration_proxy)

C14_NoPointsWitness ==
    /\ step = "rx_message" /\ PointEndReply(rin) /\ RunFromIdle
    /\ run.n = 0 /\ run.k = 1
    /\ Called(ev, "on_calibration_progress") =
          EachTold("calib_process", "on_calibration_progress", 0, 1)

\* A point-end reply whose payload carries a final result.
FinalResult(raw) == PointEndReply(raw) /\ raw.values.ok /\ raw.values.calib.has

\* C15: the dispatch of a calibration/point-end reply that carries a successful final result
\* calls, in this order, on_calibration_progress on each calibration-process listener,
\* on_calibration_changed( true, result ) once on each calibration-result listener and
\* on_calibration_result( true, result ) on each calibration-process listener; it stores the
\* result as the calibration-result snapshot and leaves the progress tracker Idle.  In a run
\* started with calibration_start(5) on an Idle tracker the first five replies publish
\* 1/5, 2/5, 3/5, 4/5, 5/5.
C15_SuccessfulResultSequence ==
    [][/\ (step' = "rx_message" /\ FinalResult(rin') /\ rin'.values.calib.result) =>
             /\ ev' = EachTold("calib_process", "on_calibration_progress",
                               Fraction(m_calibration_proxy.m_processed_points + 1,
                                        m_calibration_proxy.m_point_count)[1],
                               Fraction(m_calibration_proxy.m_processed_points + 1,
                                        m_calibration_proxy.m_point_count)[2])
                      \o EachTold("calib_result", "on_calibration_changed",
                                  1, rin'.values.calib.tag)
                      \o EachTold("calib_process", "on_calibration_result",
                                  1, rin'.values.calib.tag)
             /\ m_calib_result' = [result |-> TRUE, tag |-> rin'.values.calib.tag]
             /\ m_calibration_proxy' = [m_point_count |-> 0, m_processed_points |-> 0,
                                        m_is_calibrating |-> FALSE]
       /\ (step' = "rx_message" /\ PointEndReply(rin') /\ RunFromIdle /\ run.n = 5
           /\ run.k < 5) =>
             Called(ev', "on_calibration_progress") =
                EachTold("calib_process", "on_calibration_progress", run.k + 1, 5)]_vars

C15_FifthOfFiveSucceeds ==
    /\ step = "rx_message" /\ FinalResult(rin) /\ rin.values.calib.result
    /\ run.started /\ run.idle0 /\ run.n = 5 /\ run.k = 5
    /\ Called(ev, "on_calibration_progress") =
          EachTold("calib_process", "on_calibration_progress", 5, 5)
    /\ Len(Called(ev, "on_calibration_changed")) = 2
    /\ m_calibration_proxy = IdleProxy

(***************************************************************************)
(* Listeners.                                                              *)
(***************************************************************************)
\* The listener category each callback belongs to.
CategoryOf(a) ==
    CASE a = "on_gaze_data" -> "gaze"
      [] a = "on_calibration_changed" -> "calib_result"
      [] a \in {"on_screen_state_changed", "on_tracker_connection_changed"} -> "tracker_state"
      [] a \in {"on_calibration_started", "on_calibration_progress",
                "on_calibration_result"} -> "calib_process"
      [] a = "on_connection_state_changed" -> "connection_state"

\* evs is a sequence of whole rounds: each round one callback with one set of arguments,
\* made on every listener registered in the callback's category, in registration order.
RECURSIVE WholeRounds(_)
WholeRounds(evs) ==
    IF evs = <<>> THEN TRUE
    ELSE LET c == CategoryOf(evs[1].a)
             round == EachTold(c, evs[1].a, evs[1].m, evs[1].d)
         IN  /\ Len(evs) >= Len(round)
             /\ SubSeq(evs, 1, Len(round)) = round
             /\ WholeRounds(SubSeq(evs, Len(round) + 1, Len(evs)))

\* C16: the listener calls of every step are whole rounds: each event calls the listeners
\* registered in its category, and no other, once each in registration order, within the
\* step that handles the event (the dispatch of a message, the loss of the connection, the
\* end of the handshake in connect()); the registries themselves are not changed by it.
C16_ListenersInOrderOncePerEvent ==
    [][/\ WholeRounds(Notified(ev'))
       /\ Notified(ev') # <<>> =>
             step' \in {"rx_message", "rx_disconnected", "wake", "version_checked"}
       /\ observers' = observers]_vars

C16_ThreeRoundsInOneStep ==
    /\ step = "rx_message" /\ Len(Notified(ev)) = 6
    /\ <<ev[1].a, ev[1].n>> = <<"on_calibration_progress", 5>>
    /\ <<ev[2].a, ev[2].n>> = <<"on_calibration_progress", 3>>
    /\ <<ev[3].a, ev[3].n>> = <<"on_calibration_changed", 3>>
    /\ <<ev[4].a, ev[4].n>> = <<"on_calibration_changed", 2>>
    /\ <<ev[5].a, ev[5].n>> = <<"on_calibration_result", 5>>

\* C17: a calibration_start(N) call, whatever the progress tracker held before, leaves it with
\* total = N and processed = 0; and in the run it starts the k-th calibration/point-end reply
\* publishes k/N, so that the published progress never exceeds 1 while k <= N.
C17_StartZeroesProcessed ==
    [][/\ step' = "calibration_start" =>
             /\ m_calibration_proxy'.m_point_count = run'.n
             /\ m_calibration_proxy'.m_processed_points = 0
       /\ (step' = "rx_message" /\ PointEndReply(rin') /\ run.started /\ ~run.reset) =>
             Called(ev', "on_calibration_progress") = ProgressTold(run.k + 1, run.n)]_vars

\* C18: the dispatch of a calibration/point-end reply that carries a failed final result
\* leaves the calibration-result snapshot as it was, calls no calibration-result listener and
\* does not reset the progress tracker (it has only counted the point), yet calls
\* on_calibration_result( false, result ) once on each calibration-process listener, after the
\* progress; a point-end reply without a result calls the progress callback only.
C18_FailedResultOnlyReported ==
    [][(step' = "rx_message" /\ PointEndReply(rin')) =>
          /\ (FinalResult(rin') /\ ~rin'.values.calib.result) =>
                /\ m_calib_result' = m_calib_result
                /\ Called(ev', "on_calibration_changed") = <<>>
                /\ m_calibration_proxy' =
                      [m_calibration_proxy EXCEPT !.m_processed_points = @ + 1]
                /\ Len(ev') = 4
                /\ SubSeq(ev', 1, 2) = Called(ev', "on_calibration_progress")
                /\ SubSeq(ev', 3, 4) =
                      EachTold("calib_process", "on_calibration_result",
                               0, rin'.values.calib.tag)
          /\ ~FinalResult(rin') =>
                /\ m_calib_result' = m_calib_result
                /\ m_calibration_proxy' =
                      [m_calibration_proxy EXCEPT !.m_processed_points = @ + 1]
                /\ ev' = Called(ev', "on_calibration_progress")
                /\ Len(ev') = 2]_vars

C18_FailedResultSeen ==
    /\ step = "rx_message" /\ FinalResult(rin) /\ ~rin.values.calib.result
    /\ m_calib_result.result
    /\ run.started /\ run.n = 2 /\ run.k = 2 /\ ~run.reset
    /\ m_calibration_proxy.m_processed_points = 2 /\ m_calibration_proxy.m_is_calibrating
    /\ Len(Called(ev, "on_calibration_result")) = 2

\* GazeApi::get_calib_result: a copy of the calibration-result snapshot
get_calib_result == m_calib_result

\* A calibration reply of the given request kind with status ok.
CalibrationReply(raw, request) ==
    /\ raw.kind = "msg" /\ raw.json
    /\ raw.category = "calibration" /\ raw.statuscode = 200 /\ raw.request = request

\* C19: after the dispatch of a calibration/clear reply, and after the dispatch of a
\* calibration/abort reply, get_calib_result() returns the cleared result; and after an abort
\* reply the progress tracker is Idle.
C19_ClearAndAbortClearResult ==
    [][/\ (step' = "rx_message" /\ CalibrationReply(rin', "clear")) =>
             get_calib_result' = [result |-> FALSE, tag |-> 0]
       /\ (step' = "rx_message" /\ CalibrationReply(rin', "abort")) =>
             /\ get_calib_result' = [result |-> FALSE, tag |-> 0]
             /\ m_calibration_proxy' = [m_point_count |-> 0, m_processed_points |-> 0,
                                        m_is_calibrating |-> FALSE]]_vars

\* The receive context has sent the follow-up query of a notification and waits in send_sync.
FollowUpAsked == rpc = "n_wait" /\ blk["rx"].id = SR_GET_CHANGES

\* The reply to a follow-up query is dispatched by the receive context.
FollowUpDispatched ==
    step = "rx_message" /\ rin.kind = "msg" /\ rin.json /\ rin.id = SR_GET_CHANGES

\* C20: a notification received while Running is eventually followed by the dispatch of the
\* reply to its follow-up query, after which the receive context is free again, unless the
\* connection ends before the server's answer is delivered.
C20_FollowUpReplyDispatched ==
    FollowUpAsked ~> (~sock \/ (FollowUpDispatched /\ rpc = "idle"))

\* get_default_version found no version in the snapshot when its poll ended.
NoVersionReply == m_server_proxy.version = 0

\* C21: the poll of get_default_version is bounded: every turn uses up one of the MaxWait
\* turns it starts with, and it is never left waiting with no turn to take and no way out.
\* When it ends without a version reply, all turns are used up, the version reported is 0,
\* and connect() returns false with the engine Stopped; with or without a reply, the version
\* field of the snapshot is back at the value it had when the query started.
C21_VersionQueryTerminates ==
    [][/\ (step' = "connect" /\ cpc' = "c_poll") =>
             /\ cloc'.wait = MaxWait
             /\ cloc'.saved = m_server_proxy'.version
       /\ step' = "poll_sleep" =>
             /\ cloc.wait \in 1..MaxWait
             /\ cloc'.wait = cloc.wait - 1
             /\ cpc' = "c_poll"
       /\ cpc' = "c_poll" =>
             /\ cloc'.wait \in 0..MaxWait
             /\ (m_server_proxy'.version = 0 /\ cloc'.wait > 0) \/ (ENABLED ConnectVersionChecked)'
       /\ step' = "version_checked" =>
             /\ cpc' # "c_poll"
             /\ m_server_proxy'.version = cloc.saved
             /\ NoVersionReply =>
                   /\ cloc.wait = 0
                   /\ cloc'.ver = 0
                   /\ ret' = Returned("connect", "false")
                   /\ m_state' = AS_STOPPED]_vars

\* The server stayed silent for the whole poll while the connection was up: connect() gave up.
C21_PollTimedOut ==
    /\ step = "version_checked" /\ cloc.wait = 0 /\ cloc.ver = 0 /\ ~cloc.lost
    /\ SockCalls(ev, "disconnect") # <<>>
    /\ ret = Returned("connect", "false") /\ m_state = AS_STOPPED
    /\ m_server_proxy.version = cloc.saved

\* The guard of the snapshot is held by a reader that is inside its accessor.
ReaderInside(field) == reading = GuardOf(field)

\* C22: the gaze, calibration-result and screen snapshots are written under their guards
\* only, by connect() as by the dispatch path, so that no write to a snapshot is made while
\* a reader is inside get_frame(), get_calib_result() or get_screen() of that snapshot,
\* between the lock() and the unlock() of its guard.
C22_NoWriteWhileReading ==
    [][\A x \in wr' : ~ReaderInside(x.field)]_vars

\* A notification was received while the caller is blocked in a synchronous call: the caller
\* holds m_sync_lock and waits for its reply, the receive context waits for m_sync_lock.
NotifiedWhileCallerWaits ==
    cpc = "wait" /\ blk["caller"].st = "wait" /\ m_sync_lock = "caller" /\ rpc = "n_lock"

\* C23: when a notification arrives while the caller is blocked in a synchronous call, the
\* call eventually returns (after which the follow-up query can be sent), unless the
\* connection ends before the server's answer is delivered.
C23_CallerReturnsDespiteNotification ==
    NotifiedWhileCallerWaits ~> (~sock \/ cpc = "idle")

\* The calls that return the status of their correlated reply.
StatusCalls == {"set_screen", "calibration_start", "calibration_point_start"}

\* C24: a set_screen, calibration_start or calibration_point_start call made while the engine
\* is Stopped sends nothing to the transport and returns false, whatever was sent or
\* received before.
C24_StoppedCallsReturnFalse ==
    [][(step' \in StatusCalls /\ m_state = AS_STOPPED) =>
          /\ \A i \in 1..Len(ev') : ev'[i].k \notin {"send", "sock"}
          /\ outbox' = outbox
          /\ ret' = Returned(step', "false")]_vars

\* C25: a calibration_start call that returns false leaves the calibration progress tracker
\* as it was when the call was made: point count, processed count and calibrating flag.
C25_FailedStartLeavesTracker ==
    [][ret' = Returned("calibration_start", "false") => m_calibration_proxy' = cloc'.pre]_vars

\* C26: when connect() returns true after on_disconnected ran during the call, the engine is
\* not left Stopped with true as the last value given to the connection-state listeners.
C26_LostNeverLeftReportedConnected ==
    ~(/\ ret = Returned("connect", "true")
      /\ cloc.lost
      /\ m_state = AS_STOPPED
      /\ told = "true")

====
